---- MODULE Spec2Model ----
(***************************************************************************)
(* The coroutine job scheduler of YT (src/Internal/JobManagerImpl.cpp):    *)
(* the mailbox matrix, the main-thread queue, the resume / completion      *)
(* protocol and the blocking join RunJobs, as a state machine of           *)
(* NumThreads threads, each with its own call stack.  One action is one   *)
(* shared-memory access of the code together with the thread-local work    *)
(* around it.                                                              *)
(***************************************************************************)
EXTENDS Integers, Sequences, FiniteSets, TLC

\* Threading::NumThreads: the size of the pool, thread 0 included.
NumThreads == 3
\* The number of fire-and-forget leaf tasks of the throughput batch.
MaxJobs == 4
\* The number of running sessions (PrepareToRunJobs .. StopRunningJobs) the
\* application brackets between construction and destruction.
MaxSessions == 2

NTasks == MaxJobs + 1
\* A null coroutine handle / a null tracking-block pointer.
Null == 0

Threads == 0..(NumThreads - 1)
Workers == 1..(NumThreads - 1)
Tasks == 1..NTasks
\* Tracking blocks: the Job List created inside task t has block t, the
\* client's Job List has block RootBlock.
RootBlock == NTasks + 1
Blocks == 1..RootBlock

(***************************************************************************)
(* The client programs.  A task's body is a sequence of operations, each   *)
(* either "co_await child" or "JobList over kids; WaitForCompletion", and  *)
(* ends with co_return.                                                    *)
(***************************************************************************)
Aw(c) == [op |-> "await", c |-> c, kids |-> <<>>]
Li(k) == [op |-> "list", c |-> Null, kids |-> k]
\* a Job List that is filled at one point of the body and waited for at a
\* later one
Lp(k) == [op |-> "push", c |-> Null, kids |-> k]
Lw == [op |-> "wait", c |-> Null, kids |-> <<>>]
Leaf == <<>>

\* Programs 1..10 are single sessions over one Job List; program 10 + k is
\* the k-th session of an application that runs several sessions.
Scenarios == 1..10
Session(k) == 10 + k
\* Programs 21.. are single sessions whose coroutines change threads
\* between two of their steps.
Handoffs == 21..24
\* Program 31 is a single session that pushes more leaf tasks than the pool
\* has threads, so that the round-robin comes back to an occupied cell.
Bursts == {31}

\* The tasks the client pushes to its Job List, in order.
Roots(s) ==
    CASE s = 1 -> [i \in 1..MaxJobs |-> i]
      [] s = 2 -> <<1, 2, 3>>
      [] s = 3 -> <<4, 1, 5>>
      [] s = 10 -> <<1, 2>>
      [] s = 11 -> <<1, 2>>
      [] s = 22 -> <<4, 1>>
      [] s = 31 -> [i \in 1..NTasks |-> i]
      [] s > 20 -> <<1>>
      [] s > 11 -> <<s - 9>>
      [] OTHER -> <<1>>

\* m_IsMainThread of the task's promise (JobCoroMainThread).
IsMainThread(s, t) ==
    CASE s = 2 -> t = 3
      [] s = 8 -> t = 2
      [] s = 4 -> t \in {1, 2}
      [] s = 6 -> t = 1
      [] s = 9 -> t = 1
      [] s = 10 -> t = 1
      [] s > 20 -> FALSE
      [] s > 10 -> s % 2 = 0
      [] OTHER -> FALSE

\* m_ReturnVoid of the task's promise (JobCoro<void> against JobCoro<int>).
ReturnVoid(s, t) ==
    CASE s = 2 -> t # 2
      [] s = 3 -> t \notin {1, 5}
      [] s = 7 -> t = 1
      [] s = 21 -> FALSE
      [] s \in {22, 23} -> t # 3
      [] s = 24 -> t = 1
      [] OTHER -> TRUE

\* The body of task t.
Prog(s, t) ==
    CASE s = 3 /\ t = 1 -> <<Aw(2)>>
      [] s = 4 /\ t = 1 -> <<Aw(2)>>
      [] s = 5 /\ t = 1 -> <<Li(<<2, 3>>)>>
      [] s = 6 /\ t = 1 -> <<Li(<<2>>)>>
      [] s = 7 /\ t = 1 -> <<Aw(2)>>
      [] s = 7 /\ t = 2 -> <<Aw(3)>>
      [] s = 8 /\ t = 1 -> <<Aw(2)>>
      [] s = 9 /\ t = 1 -> <<Aw(2)>>
      [] s = 10 /\ t = 2 -> <<Li(<<>>)>>
      [] s \in {21, 24} /\ t = 1 -> <<Aw(2)>>
      [] s \in {22, 23} /\ t = 1 -> <<Lp(<<2>>), Aw(3), Lw>>
      [] OTHER -> Leaf

VARIABLES
    scn,        \* the client program that runs
    running,    \* m_Running
    sem,        \* m_RunningSemaphore
    cell,       \* m_Blocks[target][source].m_Handle
    queue,      \* m_MainThreadJobs
    mutex,      \* m_MainThreadJobMutex: its owner, or NumThreads when free
    nextJob,    \* g_NextJobID of each thread
    stack,      \* the call stack of each thread
    st,         \* each coroutine frame: none, susp, run, done, freed, killed
    tpc,        \* the resume point of each coroutine
    rh,         \* promise.m_ResumeHandle
    trk,        \* promise.m_IncrementCounters
    owner,      \* promise.m_OwningThread
    lcnt,       \* tracking_block[i].m_LocalCount, per block
    rcnt,       \* tracking_block[i].m_RemoteCount, per block
    target,     \* the Job List's count of pushed tasks, per block
    returned,   \* WaitForCompletion has returned, per block
    fault,      \* the undefined behaviour or abort the run has hit, if any
    pool,       \* the value of Threading::NumThreads the program is built with
    quit,       \* m_Quit
    created,    \* g_JobManager is set
    result,     \* what the last call of CreateJobManager returned
    tid,        \* g_ThreadID of each thread
    firstTo,    \* history: the target of each thread's first deposit by PushJob
    deposits,   \* history: deposits of each handle (cell or queue)
    execs,      \* history: resumes of each coroutine
    incs,       \* history: counter increments on account of each task
    appended,   \* history: the handles appended to the main-thread queue
    drained,    \* history: the handles resumed out of the main-thread queue
    doneBy      \* history: the thread whose resume ran each task to its end

schedv == <<running, sem>>
taskv == <<st, tpc, rh, trk, owner>>
cntv == <<lcnt, rcnt, target, returned>>
histv == <<deposits, execs, incs, appended, drained, firstTo, doneBy>>
lifev == <<pool, quit, created, tid, result>>
vars == <<scn, running, sem, cell, queue, mutex, nextJob, stack, st, tpc, rh,
          trk, owner, lcnt, rcnt, target, returned, fault, deposits, execs,
          incs, appended, drained, firstTo, doneBy, pool, quit, created, tid, result>>

Free == NumThreads

Fr(fn, pc, h, i, acc, blk, tgt) ==
    [fn |-> fn, pc |-> pc, h |-> h, i |-> i, acc |-> acc, blk |-> blk, tgt |-> tgt]

Top(th) == stack[th][Len(stack[th])]
Replace(th, f) == [stack EXCEPT ![th] = [@ EXCEPT ![Len(@)] = f]]
ReplaceAndPush(th, f, g) == [stack EXCEPT ![th] = Append([@ EXCEPT ![Len(@)] = f], g)]
Pop(th) == [stack EXCEPT ![th] = SubSeq(@, 1, Len(@) - 1)]
At(th, fn, pc) ==
    fault = "none" /\ Len(stack[th]) > 0 /\ Top(th).fn = fn /\ Top(th).pc = pc

PushJobFrame(h) == Fr("PushJob", "xchg", h, 0, 0, 0, 0)
PushMainFrame(h) == Fr("PushMainThreadJob", "lock", h, 0, 0, 0, 0)
ResumeFrame(h) == Fr("ResumeCoroutine", "resume", h, 0, 0, 0, 0)
ProcessFrame == Fr("ProcessJobList", "peek", Null, 0, 0, 0, 0)
RunJobsFrame(b, k) == Fr("RunJobs", "process", Null, 0, 0, b, k)
BodyFrame(h) == Fr("Body", "run", h, 0, 0, 0, 0)

\* A routing that ignores the continuation's affinity.
RouteFrameAny(h) == PushJobFrame(h)

\* A routing with the test of m_IsMainThread inverted.
RouteFrameInverted(h) == IF IsMainThread(scn, h) THEN PushJobFrame(h) ELSE PushMainFrame(h)

\* ResumeCoroutine's routing of a continuation by resume_promise.m_IsMainThread.
RouteFrame(h) == IF IsMainThread(scn, h) THEN PushMainFrame(h) ELSE PushJobFrame(h)

\* The dispatch of a task that is launched or awaited, by its affinity.
DispatchFrame(h) == IF IsMainThread(scn, h) THEN PushMainFrame(h) ELSE PushJobFrame(h)

Bump(f, t) == [f EXCEPT ![t] = @ + 1]

Init ==
    /\ scn \in Scenarios
    /\ running = FALSE
    /\ sem = 0
    /\ cell = [t \in Threads |-> [s \in Threads |-> Null]]
    /\ queue = <<>>
    /\ mutex = Free
    /\ nextJob = [th \in Threads |-> IF th = 0 THEN 0 ELSE (th + 1) % NumThreads]
    /\ pool = NumThreads
    /\ quit = FALSE
    /\ created = TRUE
    /\ result = "true"
    /\ tid = [th \in Threads |-> th]
    /\ firstTo = [th \in Threads |-> -1]
    /\ doneBy = [t \in Tasks |-> -1]
    /\ stack = [th \in Threads |->
                  IF th = 0 THEN <<Fr("Client", "prepare", Null, 1, 0, 0, 0)>>
                  ELSE <<Fr("JobMain", "acquire", Null, 0, 0, 0, 0)>>]
    /\ st = [t \in Tasks |-> "none"]
    /\ tpc = [t \in Tasks |-> 1]
    /\ rh = [t \in Tasks |-> Null]
    /\ trk = [t \in Tasks |-> Null]
    /\ owner = [t \in Tasks |-> 0]
    /\ lcnt = [b \in Blocks |-> [th \in Threads |-> 0]]
    /\ rcnt = [b \in Blocks |-> [th \in Threads |-> 0]]
    /\ target = [b \in Blocks |-> 0]
    /\ returned = [b \in Blocks |-> FALSE]
    /\ fault = "none"
    /\ deposits = [t \in Tasks |-> 0]
    /\ execs = [t \in Tasks |-> 0]
    /\ incs = [t \in Tasks |-> 0]
    /\ appended = <<>>
    /\ drained = <<>>

(***************************************************************************)
(* The client on thread 0: the test fixture and main() bracket one Job     *)
(* List batch with PrepareToRunJobs and StopRunningJobs.                    *)
(***************************************************************************)
\* A PrepareToRunJobs that releases one permit only.
PrepareToRunJobsOnePermit ==
    /\ At(0, "Client", "prepare")
    /\ running' = TRUE
    /\ sem' = sem + 1
    /\ stack' = Replace(0, [Top(0) EXCEPT !.pc = "push"])
    /\ UNCHANGED <<scn, lifev, cell, queue, mutex, nextJob, taskv, cntv, fault, histv>>

\* PrepareToRunJobs
PrepareToRunJobs ==
    /\ At(0, "Client", "prepare")
    /\ running' = TRUE
    /\ sem' = sem + (pool - 1)
    /\ stack' = Replace(0, [Top(0) EXCEPT !.pc = "push"])
    /\ UNCHANGED <<scn, lifev, cell, queue, mutex, nextJob, taskv, cntv, fault, histv>>

\* JobList::PushJob of the client's list: attach the tracking block, count
\* the task, dispatch it by its affinity.
ListPushJob ==
    /\ At(0, "Client", "push")
    /\ Top(0).i <= Len(Roots(scn))
    /\ LET t == Roots(scn)[Top(0).i] IN
        /\ st' = [st EXCEPT ![t] = "susp"]
        /\ trk' = [trk EXCEPT ![t] = RootBlock]
        /\ owner' = [owner EXCEPT ![t] = 0]
        /\ target' = Bump(target, RootBlock)
        /\ stack' = ReplaceAndPush(0, [Top(0) EXCEPT !.i = @ + 1], DispatchFrame(t))
    /\ UNCHANGED <<scn, lifev, schedv, cell, queue, mutex, nextJob, tpc, rh, lcnt, rcnt,
                   returned, fault, histv>>

\* JobList::WaitForCompletion of the client's list
WaitForCompletion ==
    /\ At(0, "Client", "push")
    /\ Top(0).i > Len(Roots(scn))
    /\ stack' = ReplaceAndPush(0, [Top(0) EXCEPT !.pc = "stop"],
                               RunJobsFrame(RootBlock, target[RootBlock]))
    /\ UNCHANGED <<scn, lifev, schedv, cell, queue, mutex, nextJob, taskv, cntv, fault, histv>>

\* StopRunningJobs
StopRunningJobs ==
    /\ At(0, "Client", "stop")
    /\ running' = FALSE
    /\ stack' = Replace(0, [Top(0) EXCEPT !.pc = "end"])
    /\ UNCHANGED <<scn, lifev, sem, cell, queue, mutex, nextJob, taskv, cntv, fault, histv>>

(***************************************************************************)
(* JobMain: the loop of a worker thread.                                    *)
(***************************************************************************)
JobMainAcquire(th) ==
    /\ At(th, "JobMain", "acquire")
    /\ sem > 0
    /\ sem' = sem - 1
    /\ stack' = Replace(th, [Top(th) EXCEPT !.pc = "loop"])
    /\ UNCHANGED <<scn, lifev, running, cell, queue, mutex, nextJob, taskv, cntv, fault, histv>>

\* while (!m_Quit.load()): the worker goes on to the semaphore, or returns
JobMainQuit(th) ==
    /\ At(th, "JobMain", "outer")
    /\ stack' = Replace(th, [Top(th) EXCEPT !.pc = IF quit THEN "exited" ELSE "acquire"])
    /\ UNCHANGED <<scn, lifev, schedv, cell, queue, mutex, nextJob, taskv, cntv, fault, histv>>

\* An inner loop that does not read m_Running.
JobMainLoopForever(th) ==
    /\ At(th, "JobMain", "loop")
    /\ stack' = [stack EXCEPT ![th] = Append(@, ProcessFrame)]
    /\ UNCHANGED <<scn, lifev, schedv, cell, queue, mutex, nextJob, taskv, cntv, fault, histv>>

\* while (m_Running.load()): ProcessJobList(thread_id)
JobMainLoop(th) ==
    /\ At(th, "JobMain", "loop")
    /\ stack' = IF running THEN [stack EXCEPT ![th] = Append(@, ProcessFrame)]
                ELSE Replace(th, [Top(th) EXCEPT !.pc = "outer"])
    /\ UNCHANGED <<scn, lifev, schedv, cell, queue, mutex, nextJob, taskv, cntv, fault, histv>>

(***************************************************************************)
(* ProcessJobList(thread_id): the scan of the thread's own row.            *)
(***************************************************************************)
\* A scan that exchanges every cell, without the load that tests it first.
ProcessPeekBlind(th) ==
    /\ At(th, "ProcessJobList", "peek")
    /\ stack' = Replace(th, [Top(th) EXCEPT !.pc = "xchg"])
    /\ UNCHANGED <<scn, lifev, schedv, cell, queue, mutex, nextJob, taskv, cntv, fault, histv>>

\* the load that tests a cell
ProcessPeek(th) ==
    /\ At(th, "ProcessJobList", "peek")
    /\ LET f == Top(th) IN
        stack' = IF cell[th][f.i] # Null THEN Replace(th, [f EXCEPT !.pc = "xchg"])
                 ELSE IF f.i + 1 < pool THEN Replace(th, [f EXCEPT !.i = @ + 1])
                 ELSE Pop(th)
    /\ UNCHANGED <<scn, lifev, schedv, cell, queue, mutex, nextJob, taskv, cntv, fault, histv>>

\* A claim that goes on scanning behind the cell it has emptied, the handle
\* being resumed on the way.
ProcessClaimOn(th) ==
    /\ At(th, "ProcessJobList", "xchg")
    /\ LET f == Top(th)
           h == cell[th][f.i] IN
        /\ cell' = [cell EXCEPT ![th][f.i] = Null]
        /\ stack' = IF h # Null /\ f.i + 1 < pool
                    THEN ReplaceAndPush(th, [f EXCEPT !.pc = "peek", !.i = @ + 1],
                                        ResumeFrame(h))
                    ELSE IF h # Null THEN Replace(th, ResumeFrame(h))
                    ELSE IF f.i + 1 < pool
                         THEN Replace(th, [f EXCEPT !.pc = "peek", !.i = @ + 1])
                    ELSE Pop(th)
    /\ UNCHANGED <<scn, lifev, schedv, queue, mutex, nextJob, taskv, cntv, fault, histv>>

\* the exchange with nullptr that claims a cell
ProcessClaim(th) ==
    /\ At(th, "ProcessJobList", "xchg")
    /\ LET f == Top(th)
           h == cell[th][f.i] IN
        /\ cell' = [cell EXCEPT ![th][f.i] = Null]
        /\ stack' = IF h # Null THEN Replace(th, ResumeFrame(h))
                    ELSE IF f.i + 1 < pool
                         THEN Replace(th, [f EXCEPT !.pc = "peek", !.i = @ + 1])
                    ELSE Pop(th)
    /\ UNCHANGED <<scn, lifev, schedv, queue, mutex, nextJob, taskv, cntv, fault, histv>>

(***************************************************************************)
(* PushJob and PushMainThreadJob                                            *)
(***************************************************************************)
\* A routing counter that steps over one thread id at each call.
NextTargetSkip(n) == (n + 2) % pool

NextTarget(n) == (n + 1) % pool

\* A PushJob that drops the handle its exchange returned.
AfterExchangeDrop(th, f, d) == Replace(th, [f EXCEPT !.pc = "advance"])

\* if (coro) ResumeCoroutine(coro): what PushJob does with the handle d its
\* exchange returned
AfterExchange(th, f, d) ==
    IF d # Null
    THEN ReplaceAndPush(th, [f EXCEPT !.pc = "advance"], ResumeFrame(d))
    ELSE Replace(th, [f EXCEPT !.pc = "advance"])

\* A PushJob built without its assert.
PushJobExchangeUnchecked(th) ==
    /\ At(th, "PushJob", "xchg")
    /\ LET f == Top(th)
           d == cell[nextJob[th]][th] IN
        /\ cell' = [cell EXCEPT ![nextJob[th]][th] = f.h]
        /\ deposits' = Bump(deposits, f.h)
        /\ firstTo' = IF firstTo[th] = -1 THEN [firstTo EXCEPT ![th] = nextJob[th]]
                      ELSE firstTo
        /\ stack' = AfterExchange(th, f, d)
    /\ UNCHANGED <<scn, lifev, schedv, queue, mutex, nextJob, taskv, cntv, execs,
                   incs, appended, drained, fault, doneBy>>

\* the exchange that deposits the handle in cell [g_NextJobID][g_ThreadID]
PushJobExchange(th) ==
    /\ At(th, "PushJob", "xchg")
    /\ LET f == Top(th)
           d == cell[nextJob[th]][th] IN
        IF pool = 1
        THEN /\ stack' = ReplaceAndPush(th, [f EXCEPT !.pc = "inline"], ResumeFrame(f.h))
             /\ UNCHANGED <<cell, deposits, firstTo, fault>>
        ELSE IF ~running
        THEN /\ fault' = "assert"
             /\ UNCHANGED <<cell, deposits, firstTo, stack>>
        ELSE /\ cell' = [cell EXCEPT ![nextJob[th]][th] = f.h]
             /\ deposits' = Bump(deposits, f.h)
             /\ firstTo' = IF firstTo[th] = -1 THEN [firstTo EXCEPT ![th] = nextJob[th]]
                           ELSE firstTo
             /\ stack' = AfterExchange(th, f, d)
             /\ UNCHANGED fault
    /\ UNCHANGED <<scn, lifev, schedv, queue, mutex, nextJob, taskv, cntv, execs,
                   incs, appended, drained, doneBy>>

\* g_NextJobID = (g_NextJobID + 1) % NumThreads, after the displaced task ran
PushJobAdvance(th) ==
    /\ At(th, "PushJob", "advance")
    /\ nextJob' = [nextJob EXCEPT ![th] = NextTarget(@)]
    /\ stack' = Pop(th)
    /\ UNCHANGED <<scn, lifev, schedv, cell, queue, mutex, taskv, cntv, fault, histv>>

\* PushJob of a build with one thread returns after ResumeCoroutine(handle)
PushJobReturn(th) ==
    /\ At(th, "PushJob", "inline")
    /\ stack' = Pop(th)
    /\ UNCHANGED <<scn, lifev, schedv, cell, queue, mutex, nextJob, taskv, cntv, fault, histv>>

\* lock_guard, emplace_back, unlock
PushMainThreadJob(th) ==
    /\ At(th, "PushMainThreadJob", "lock")
    /\ IF ~running
       THEN /\ fault' = "assert"
            /\ UNCHANGED <<queue, deposits, appended, stack>>
       ELSE /\ mutex = Free
            /\ queue' = Append(queue, Top(th).h)
            /\ deposits' = Bump(deposits, Top(th).h)
            /\ appended' = Append(appended, Top(th).h)
            /\ stack' = Pop(th)
            /\ UNCHANGED fault
    /\ UNCHANGED <<scn, lifev, schedv, cell, mutex, nextJob, taskv, cntv, execs,
                   incs, drained, firstTo, doneBy>>

\* std::mutex::lock by the thread that owns the mutex is undefined: the
\* thread hangs for ever, or lock throws and the noexcept caller terminates.
Relock(th) ==
    /\ (At(th, "PushMainThreadJob", "lock") /\ running) \/ (th = 0 /\ At(th, "RunJobs", "main"))
    /\ mutex = th
    /\ \/ /\ stack' = Replace(th, [Top(th) EXCEPT !.pc = "hung"])
          /\ UNCHANGED fault
       \/ /\ fault' = "terminate"
          /\ UNCHANGED stack
    /\ UNCHANGED <<scn, lifev, schedv, cell, queue, mutex, nextJob, taskv, cntv, histv>>

(***************************************************************************)
(* RunJobs(tracking_block, target): the join loop.                          *)
(***************************************************************************)
\* A pass that goes to the main-thread queue without its call of
\* ProcessJobList.
RunJobsProcessSkip(th) ==
    /\ At(th, "RunJobs", "process")
    /\ stack' = Replace(th, [Top(th) EXCEPT !.pc = "main"])
    /\ UNCHANGED <<scn, lifev, schedv, cell, queue, mutex, nextJob, taskv, cntv, fault, histv>>

\* ProcessJobList(g_ThreadID)
RunJobsProcess(th) ==
    /\ At(th, "RunJobs", "process")
    /\ stack' = ReplaceAndPush(th, [Top(th) EXCEPT !.pc = "main"], ProcessFrame)
    /\ UNCHANGED <<scn, lifev, schedv, cell, queue, mutex, nextJob, taskv, cntv, fault, histv>>

\* if (g_ThreadID == 0) lock_guard lock(m_MainThreadJobMutex)
RunJobsLock(th) ==
    /\ At(th, "RunJobs", "main")
    /\ IF th = 0
       THEN /\ mutex = Free
            /\ mutex' = th
            /\ stack' = Replace(th, [Top(th) EXCEPT !.pc = "drain", !.i = 1])
       ELSE /\ stack' = Replace(th, [Top(th) EXCEPT !.pc = "sum", !.i = 0, !.acc = 0])
            /\ UNCHANGED mutex
    /\ UNCHANGED <<scn, lifev, schedv, cell, queue, nextJob, taskv, cntv, fault, histv>>

\* one iteration of the loop over m_MainThreadJobs: ResumeCoroutine(handle)
RunJobsDrain(th) ==
    /\ At(th, "RunJobs", "drain")
    /\ Top(th).i <= Len(queue)
    /\ stack' = ReplaceAndPush(th, [Top(th) EXCEPT !.i = @ + 1], ResumeFrame(queue[Top(th).i]))
    /\ drained' = Append(drained, queue[Top(th).i])
    /\ UNCHANGED <<scn, lifev, schedv, cell, queue, mutex, nextJob, taskv, cntv, fault,
                   deposits, execs, incs, appended, firstTo, doneBy>>

\* A clear that does not wait for the end of the loop.
RunJobsClearEarly(th) ==
    /\ At(th, "RunJobs", "drain")
    /\ queue' = <<>>
    /\ mutex' = Free
    /\ stack' = Replace(th, [Top(th) EXCEPT !.pc = "sum", !.i = 0, !.acc = 0])
    /\ UNCHANGED <<scn, lifev, schedv, cell, nextJob, taskv, cntv, fault, histv>>

\* m_MainThreadJobs.clear() and the end of the lock_guard's scope
RunJobsClear(th) ==
    /\ At(th, "RunJobs", "drain")
    /\ Top(th).i > Len(queue)
    /\ queue' = <<>>
    /\ mutex' = Free
    /\ stack' = Replace(th, [Top(th) EXCEPT !.pc = "sum", !.i = 0, !.acc = 0])
    /\ UNCHANGED <<scn, lifev, schedv, cell, nextJob, taskv, cntv, fault, histv>>

\* the counter RunJobs reads for entry i
CounterRead(th, b, i) == IF i = th THEN lcnt[b][i] ELSE rcnt[b][i]

\* one iteration of the summing loop; after the last one the comparison
\* with target
RunJobsSum(th) ==
    /\ At(th, "RunJobs", "sum")
    /\ LET f == Top(th)
           sum == f.acc + CounterRead(th, f.blk, f.i) IN
        IF f.i + 1 < pool
        THEN /\ stack' = Replace(th, [f EXCEPT !.i = @ + 1, !.acc = sum])
             /\ UNCHANGED returned
        ELSE IF sum = f.tgt
        THEN /\ stack' = Pop(th)
             /\ returned' = [returned EXCEPT ![f.blk] = TRUE]
        ELSE /\ stack' = Replace(th, [f EXCEPT !.pc = "process", !.i = 0, !.acc = 0])
             /\ UNCHANGED returned
    /\ UNCHANGED <<scn, lifev, schedv, cell, queue, mutex, nextJob, taskv, lcnt, rcnt,
                   target, fault, histv>>

(***************************************************************************)
(* ResumeCoroutine(coro)                                                    *)
(***************************************************************************)
Gone(t) == st[t] \in {"freed", "killed"}

\* coro.resume(): defined only for a suspended coroutine
ResumeStart(th) ==
    /\ At(th, "ResumeCoroutine", "resume")
    /\ LET h == Top(th).h IN
        IF st[h] = "susp"
        THEN /\ st' = [st EXCEPT ![h] = "run"]
             /\ execs' = Bump(execs, h)
             /\ stack' = ReplaceAndPush(th, [Top(th) EXCEPT !.pc = "cont"], BodyFrame(h))
             /\ UNCHANGED fault
        ELSE /\ fault' = IF st[h] = "run" THEN "resume_running"
                         ELSE IF st[h] = "done" THEN "resume_done"
                         ELSE "resume_destroyed"
             /\ UNCHANGED <<st, execs, stack>>
    /\ UNCHANGED <<scn, lifev, schedv, cell, queue, mutex, nextJob, tpc, rh, trk, owner,
                   cntv, deposits, incs, appended, drained, firstTo, doneBy>>

\* if (promise.m_ResumeHandle): dispatch the continuation by its affinity
ResumeContinuation(th) ==
    /\ At(th, "ResumeCoroutine", "cont")
    /\ LET h == Top(th).h IN
        IF Gone(h) \/ (rh[h] # Null /\ Gone(rh[h]))
        THEN /\ fault' = "use_after_free"
             /\ UNCHANGED stack
        ELSE /\ stack' = IF rh[h] # Null
                         THEN ReplaceAndPush(th, [Top(th) EXCEPT !.pc = "count"], RouteFrame(rh[h]))
                         ELSE Replace(th, [Top(th) EXCEPT !.pc = "count"])
             /\ UNCHANGED fault
    /\ UNCHANGED <<scn, lifev, schedv, cell, queue, mutex, nextJob, taskv, cntv, histv>>

\* the same step counting every completion in the atomic remote counter,
\* whatever the owning thread
ResumeCountRemoteOnly(th) ==
    /\ At(th, "ResumeCoroutine", "count")
    /\ LET h == Top(th).h IN
        IF Gone(h)
        THEN /\ fault' = "use_after_free"
             /\ UNCHANGED <<stack, lcnt, rcnt, incs>>
        ELSE IF st[h] # "done"
        THEN /\ stack' = Pop(th)
             /\ UNCHANGED <<fault, lcnt, rcnt, incs>>
        ELSE /\ stack' = Replace(th, [Top(th) EXCEPT !.pc = "destroy"])
             /\ UNCHANGED fault
             /\ IF trk[h] = Null
                THEN UNCHANGED <<lcnt, rcnt, incs>>
                ELSE /\ incs' = Bump(incs, h)
                     /\ rcnt' = [rcnt EXCEPT ![trk[h]][th] = @ + 1]
                     /\ UNCHANGED lcnt
    /\ UNCHANGED <<scn, lifev, schedv, cell, queue, mutex, nextJob, taskv, target, returned,
                   deposits, execs, appended, drained, firstTo, doneBy>>

\* the same step with the remote increment going to the entry of the task's
\* owning thread instead of the current thread's
ResumeCountOwnerEntry(th) ==
    /\ At(th, "ResumeCoroutine", "count")
    /\ LET h == Top(th).h IN
        IF Gone(h)
        THEN /\ fault' = "use_after_free"
             /\ UNCHANGED <<stack, lcnt, rcnt, incs>>
        ELSE IF st[h] # "done"
        THEN /\ stack' = Pop(th)
             /\ UNCHANGED <<fault, lcnt, rcnt, incs>>
        ELSE /\ stack' = Replace(th, [Top(th) EXCEPT !.pc = "destroy"])
             /\ UNCHANGED fault
             /\ IF trk[h] = Null
                THEN UNCHANGED <<lcnt, rcnt, incs>>
                ELSE /\ incs' = Bump(incs, h)
                     /\ IF owner[h] = th
                        THEN /\ lcnt' = [lcnt EXCEPT ![trk[h]][th] = @ + 1]
                             /\ UNCHANGED rcnt
                        ELSE /\ rcnt' = [rcnt EXCEPT ![trk[h]][owner[h]] = @ + 1]
                             /\ UNCHANGED lcnt
    /\ UNCHANGED <<scn, lifev, schedv, cell, queue, mutex, nextJob, taskv, target, returned,
                   deposits, execs, appended, drained, firstTo, doneBy>>

\* if (coro.done()): the increment of the current thread's counter
ResumeCount(th) ==
    /\ At(th, "ResumeCoroutine", "count")
    /\ LET h == Top(th).h IN
        IF Gone(h)
        THEN /\ fault' = "use_after_free"
             /\ UNCHANGED <<stack, lcnt, rcnt, incs>>
        ELSE IF st[h] # "done"
        THEN /\ stack' = Pop(th)
             /\ UNCHANGED <<fault, lcnt, rcnt, incs>>
        ELSE /\ stack' = Replace(th, [Top(th) EXCEPT !.pc = "destroy"])
             /\ UNCHANGED fault
             /\ IF trk[h] = Null
                THEN UNCHANGED <<lcnt, rcnt, incs>>
                ELSE /\ incs' = Bump(incs, h)
                     /\ IF owner[h] = th
                        THEN /\ lcnt' = [lcnt EXCEPT ![trk[h]][th] = @ + 1]
                             /\ UNCHANGED rcnt
                        ELSE /\ rcnt' = [rcnt EXCEPT ![trk[h]][th] = @ + 1]
                             /\ UNCHANGED lcnt
    /\ UNCHANGED <<scn, lifev, schedv, cell, queue, mutex, nextJob, taskv, target, returned,
                   deposits, execs, appended, drained, firstTo, doneBy>>

\* if (promise.m_ReturnVoid) coro.destroy()
ResumeDestroy(th) ==
    /\ At(th, "ResumeCoroutine", "destroy")
    /\ LET h == Top(th).h IN
        IF Gone(h)
        THEN /\ fault' = "use_after_free"
             /\ UNCHANGED <<stack, st>>
        ELSE /\ st' = IF ReturnVoid(scn, h) THEN [st EXCEPT ![h] = "freed"] ELSE st
             /\ stack' = Pop(th)
             /\ UNCHANGED fault
    /\ UNCHANGED <<scn, lifev, schedv, cell, queue, mutex, nextJob, tpc, rh, trk, owner,
                   cntv, histv>>

(***************************************************************************)
(* The coroutine bodies, from their resume point to the next suspension.   *)
(***************************************************************************)
\* The child whose result the body reads, and whose frame it releases, on
\* being resumed from co_await of a value-returning child.
Awaited(h) ==
    LET k == tpc[h] IN
    IF k > 1 /\ Prog(scn, h)[k - 1].op = "await" /\ ~ReturnVoid(scn, Prog(scn, h)[k - 1].c)
    THEN Prog(scn, h)[k - 1].c ELSE Null

Release(s, c) ==
    IF c = Null THEN s
    ELSE [s EXCEPT ![c] = IF @ = "done" THEN "freed" ELSE "killed"]

\* co_return: the coroutine reaches its final suspension
BodyReturn(th) ==
    /\ At(th, "Body", "run")
    /\ LET h == Top(th).h IN
        /\ tpc[h] > Len(Prog(scn, h))
        /\ st' = [Release(st, Awaited(h)) EXCEPT ![h] = "done"]
        /\ doneBy' = [doneBy EXCEPT ![h] = th]
        /\ stack' = Pop(th)
    /\ UNCHANGED <<scn, lifev, schedv, cell, queue, mutex, nextJob, tpc, rh, trk, owner,
                   cntv, fault, deposits, execs, incs, appended, drained, firstTo>>

\* co_await child: the child's continuation is this coroutine, which
\* suspends; the child is dispatched by its affinity
BodyAwait(th) ==
    /\ At(th, "Body", "run")
    /\ LET h == Top(th).h IN
        /\ tpc[h] <= Len(Prog(scn, h))
        /\ Prog(scn, h)[tpc[h]].op = "await"
        /\ LET c == Prog(scn, h)[tpc[h]].c IN
            /\ st' = [Release(st, Awaited(h)) EXCEPT ![c] = "susp", ![h] = "susp"]
            /\ rh' = [rh EXCEPT ![c] = h]
            /\ tpc' = [tpc EXCEPT ![h] = @ + 1]
            /\ stack' = Replace(th, DispatchFrame(c))
    /\ UNCHANGED <<scn, lifev, schedv, cell, queue, mutex, nextJob, trk, owner, cntv,
                   fault, histv>>

\* JobList::PushJob inside a coroutine: the list's block is the coroutine's
BodyListPush(th) ==
    /\ At(th, "Body", "run")
    /\ LET h == Top(th).h IN
        /\ tpc[h] <= Len(Prog(scn, h))
        /\ Prog(scn, h)[tpc[h]].op \in {"list", "push"}
        /\ Top(th).i < Len(Prog(scn, h)[tpc[h]].kids)
        /\ LET kid == Prog(scn, h)[tpc[h]].kids[Top(th).i + 1] IN
            /\ st' = [(IF Top(th).i = 0 THEN Release(st, Awaited(h)) ELSE st)
                        EXCEPT ![kid] = "susp"]
            /\ trk' = [trk EXCEPT ![kid] = h]
            /\ owner' = [owner EXCEPT ![kid] = th]
            /\ target' = Bump(target, h)
            /\ stack' = ReplaceAndPush(th, [Top(th) EXCEPT !.i = @ + 1], DispatchFrame(kid))
    /\ UNCHANGED <<scn, lifev, schedv, cell, queue, mutex, nextJob, tpc, rh, lcnt, rcnt,
                   returned, fault, histv>>

\* JobList::WaitForCompletion inside a coroutine
BodyListWait(th) ==
    /\ At(th, "Body", "run")
    /\ LET h == Top(th).h IN
        /\ tpc[h] <= Len(Prog(scn, h))
        /\ Prog(scn, h)[tpc[h]].op \in {"list", "wait"}
        /\ Top(th).i = Len(Prog(scn, h)[tpc[h]].kids)
        /\ stack' = ReplaceAndPush(th, [Top(th) EXCEPT !.pc = "waited"], RunJobsFrame(h, target[h]))
    /\ UNCHANGED <<scn, lifev, schedv, cell, queue, mutex, nextJob, taskv, cntv, fault, histv>>

\* the coroutine goes on with its Job List filled and not yet waited for
BodyListKeep(th) ==
    /\ At(th, "Body", "run")
    /\ LET h == Top(th).h IN
        /\ tpc[h] <= Len(Prog(scn, h))
        /\ Prog(scn, h)[tpc[h]].op = "push"
        /\ Top(th).i = Len(Prog(scn, h)[tpc[h]].kids)
        /\ tpc' = [tpc EXCEPT ![h] = @ + 1]
        /\ stack' = Replace(th, [Top(th) EXCEPT !.i = 0])
    /\ UNCHANGED <<scn, lifev, schedv, cell, queue, mutex, nextJob, st, rh, trk, owner,
                   cntv, fault, histv>>

\* the coroutine goes on after its Job List's wait returned
BodyListDone(th) ==
    /\ At(th, "Body", "waited")
    /\ tpc' = [tpc EXCEPT ![Top(th).h] = @ + 1]
    /\ stack' = Replace(th, [Top(th) EXCEPT !.pc = "run", !.i = 0])
    /\ UNCHANGED <<scn, lifev, schedv, cell, queue, mutex, nextJob, st, rh, trk, owner,
                   cntv, fault, histv>>

(***************************************************************************)
(* The life cycle: CreateJobManager, the constructor and the prologue of   *)
(* JobMain, the sessions of the application, the destructor.               *)
(***************************************************************************)
CtorFrame == Fr("JobManager", "init", Null, 1, 0, 0, 0)
JobMainFrame(i) == Fr("JobMain", "start", Null, i, 0, 0, 0)
DtorFrame == Fr("~JobManager", "quit", Null, 1, 0, 0, 0)

\* A lambda that passes the same index to every worker.
ThreadIndexZero(i) == 0

\* The constructor's lambda [this, i]{ JobMain(i); }: the index JobMain gets.
ThreadIndex(i) == i

\* A CreateJobManager that constructs at every call.
NeverCreated == FALSE

\* CreateJobManager: if (g_JobManager)
AlreadyCreated == created

\* GetThreadId on thread th
GetThreadId(th) == tid[th]

\* CreateJobManager: return true at once, or MakeUnique<JobManager>()
CreateJobManager ==
    /\ At(0, "Client", "create")
    /\ IF AlreadyCreated
       THEN /\ result' = "true"
            /\ stack' = Replace(0, [Top(0) EXCEPT !.pc = "end"])
       ELSE /\ stack' = [stack EXCEPT ![0] = Append(@, CtorFrame)]
            /\ UNCHANGED result
    /\ UNCHANGED <<scn, schedv, cell, queue, mutex, nextJob, taskv, cntv, fault, histv,
                   pool, quit, created, tid>>

\* JobManager::JobManager: g_ThreadID = 0; g_NextJobID = 0
CtorInit ==
    /\ At(0, "JobManager", "init")
    /\ tid' = [tid EXCEPT ![0] = 0]
    /\ nextJob' = [nextJob EXCEPT ![0] = 0]
    /\ stack' = Replace(0, [Top(0) EXCEPT !.pc = "spawn"])
    /\ UNCHANGED <<scn, schedv, cell, queue, mutex, taskv, cntv, fault, histv,
                   pool, quit, created, result>>

\* m_Threads.emplace_back([this, i]{ JobMain(i); }) starts worker i
CtorSpawn ==
    /\ At(0, "JobManager", "spawn")
    /\ Top(0).i < pool
    /\ stack' = [stack EXCEPT ![0] = [@ EXCEPT ![Len(@)].i = @ + 1],
                              ![Top(0).i] = <<JobMainFrame(ThreadIndex(Top(0).i))>>]
    /\ UNCHANGED <<scn, lifev, schedv, cell, queue, mutex, nextJob, taskv, cntv, fault, histv>>

\* m_Threads.emplace_back throws (std::system_error, std::bad_alloc): the
\* constructor unwinds and destroys m_Threads; the destructor of a joinable
\* std::thread calls std::terminate; with no thread started yet the
\* exception reaches the catch (...) of CreateJobManager.
CtorThrow ==
    /\ At(0, "JobManager", "spawn")
    /\ Top(0).i < pool
    /\ IF Top(0).i > 1
       THEN /\ fault' = "terminate"
            /\ UNCHANGED <<stack, result>>
       ELSE /\ stack' = [stack EXCEPT ![0] = <<[@[1] EXCEPT !.pc = "failed"]>>]
            /\ result' = "false"
            /\ UNCHANGED fault
    /\ UNCHANGED <<scn, schedv, cell, queue, mutex, nextJob, taskv, cntv, histv,
                   pool, quit, created, tid>>

\* the constructor returns; g_JobManager = ...; return true
CtorDone ==
    /\ At(0, "JobManager", "spawn")
    /\ Top(0).i = pool
    /\ created' = TRUE
    /\ result' = "true"
    /\ stack' = Pop(0)
    /\ UNCHANGED <<scn, schedv, cell, queue, mutex, nextJob, taskv, cntv, fault, histv,
                   pool, quit, tid>>

\* JobMain: g_ThreadID = thread_id; g_NextJobID = (thread_id + 1) % NumThreads
JobMainStart(th) ==
    /\ At(th, "JobMain", "start")
    /\ tid' = [tid EXCEPT ![th] = Top(th).i]
    /\ nextJob' = [nextJob EXCEPT ![th] = (Top(th).i + 1) % pool]
    /\ stack' = Replace(th, [Top(th) EXCEPT !.pc = "outer"])
    /\ UNCHANGED <<scn, schedv, cell, queue, mutex, taskv, cntv, fault, histv,
                   pool, quit, created, result>>

\* the application begins its next session, with the next program
ClientSession ==
    /\ At(0, "Client", "end")
    /\ Top(0).acc < MaxSessions
    /\ scn' = Session(Top(0).acc + 1)
    /\ stack' = Replace(0, [Top(0) EXCEPT !.pc = "prepare", !.i = 1, !.acc = @ + 1])
    /\ UNCHANGED <<lifev, schedv, cell, queue, mutex, nextJob, taskv, cntv, fault, histv>>

\* an application that pushes without a call of PrepareToRunJobs
ClientSkipPrepare ==
    /\ At(0, "Client", "prepare")
    /\ stack' = Replace(0, [Top(0) EXCEPT !.pc = "push"])
    /\ UNCHANGED <<scn, lifev, schedv, cell, queue, mutex, nextJob, taskv, cntv, fault, histv>>

\* the application destroys the JobManager between sessions
ClientDestroy ==
    /\ At(0, "Client", "end")
    /\ stack' = ReplaceAndPush(0, [Top(0) EXCEPT !.pc = "destroyed"], DtorFrame)
    /\ UNCHANGED <<scn, lifev, schedv, cell, queue, mutex, nextJob, taskv, cntv, fault, histv>>

\* ~JobManager: m_Quit.store(true)
DtorQuit ==
    /\ At(0, "~JobManager", "quit")
    /\ quit' = TRUE
    /\ stack' = Replace(0, [Top(0) EXCEPT !.pc = "release"])
    /\ UNCHANGED <<scn, schedv, cell, queue, mutex, nextJob, taskv, cntv, fault, histv,
                   pool, created, tid, result>>

\* A destructor that sets m_Quit and joins, and wakes nobody.
DtorNoRelease ==
    /\ At(0, "~JobManager", "release")
    /\ stack' = Replace(0, [Top(0) EXCEPT !.pc = "join", !.i = 1])
    /\ UNCHANGED <<scn, lifev, schedv, cell, queue, mutex, nextJob, taskv, cntv, fault, histv>>

\* ~JobManager: m_RunningSemaphore.release(NumThreads - 1)
DtorRelease ==
    /\ At(0, "~JobManager", "release")
    /\ sem' = sem + (pool - 1)
    /\ stack' = Replace(0, [Top(0) EXCEPT !.pc = "join", !.i = 1])
    /\ UNCHANGED <<scn, lifev, running, cell, queue, mutex, nextJob, taskv, cntv, fault, histv>>

\* ~JobManager: thread.join() returns when the thread has left JobMain
DtorJoin ==
    /\ At(0, "~JobManager", "join")
    /\ Top(0).i < pool
    /\ stack[Top(0).i] # <<>>
    /\ Top(Top(0).i).pc = "exited"
    /\ stack' = Replace(0, [Top(0) EXCEPT !.i = @ + 1])
    /\ UNCHANGED <<scn, lifev, schedv, cell, queue, mutex, nextJob, taskv, cntv, fault, histv>>

\* ~JobManager returns: the singleton is gone
DtorDone ==
    /\ At(0, "~JobManager", "join")
    /\ Top(0).i = pool
    /\ created' = FALSE
    /\ stack' = Pop(0)
    /\ UNCHANGED <<scn, schedv, cell, queue, mutex, nextJob, taskv, cntv, fault, histv,
                   pool, quit, tid, result>>

Next ==
    \/ PrepareToRunJobs
    \/ ListPushJob
    \/ WaitForCompletion
    \/ StopRunningJobs
    \/ \E th \in Workers : JobMainAcquire(th)
    \/ \E th \in Workers : JobMainQuit(th)
    \/ \E th \in Workers : JobMainLoop(th)
    \/ \E th \in Threads : ProcessPeek(th)
    \/ \E th \in Threads : ProcessClaim(th)
    \/ \E th \in Threads : PushJobExchange(th)
    \/ \E th \in Threads : PushJobAdvance(th)
    \/ \E th \in Threads : PushMainThreadJob(th)
    \/ \E th \in Threads : Relock(th)
    \/ \E th \in Threads : RunJobsProcess(th)
    \/ \E th \in Threads : RunJobsLock(th)
    \/ \E th \in Threads : RunJobsDrain(th)
    \/ \E th \in Threads : RunJobsClear(th)
    \/ \E th \in Threads : RunJobsSum(th)
    \/ \E th \in Threads : ResumeStart(th)
    \/ \E th \in Threads : ResumeContinuation(th)
    \/ \E th \in Threads : ResumeCount(th)
    \/ \E th \in Threads : ResumeDestroy(th)
    \/ \E th \in Threads : BodyReturn(th)
    \/ \E th \in Threads : BodyAwait(th)
    \/ \E th \in Threads : BodyListPush(th)
    \/ \E th \in Threads : BodyListWait(th)
    \/ \E th \in Threads : BodyListDone(th)

Spec == Init /\ [][Next]_vars

\* The steps of thread th; the client runs on thread 0.
ThreadStep(th) ==
    \/ th = 0 /\ (PrepareToRunJobs \/ ListPushJob \/ WaitForCompletion \/ StopRunningJobs)
    \/ th \in Workers /\ (JobMainAcquire(th) \/ JobMainQuit(th) \/ JobMainLoop(th))
    \/ ProcessPeek(th)
    \/ ProcessClaim(th)
    \/ PushJobExchange(th)
    \/ PushJobAdvance(th)
    \/ PushMainThreadJob(th)
    \/ Relock(th)
    \/ RunJobsProcess(th)
    \/ RunJobsLock(th)
    \/ RunJobsDrain(th)
    \/ RunJobsClear(th)
    \/ RunJobsSum(th)
    \/ ResumeStart(th)
    \/ ResumeContinuation(th)
    \/ ResumeCount(th)
    \/ ResumeDestroy(th)
    \/ BodyReturn(th)
    \/ BodyAwait(th)
    \/ BodyListPush(th)
    \/ BodyListWait(th)
    \/ BodyListDone(th)

\* Every thread of the pool is scheduled again and again while it can run.
FairSpec == Spec /\ \A th \in Threads : WF_vars(ThreadStep(th))

(***************************************************************************)
(* The application from start to shutdown: CreateJobManager (twice),       *)
(* MaxSessions sessions at most, each with its own tasks, and the          *)
(* destructor.  Before construction no worker exists and the thread-local  *)
(* g_ThreadID and g_NextJobID hold their initial -1 and 0.                 *)
(***************************************************************************)
LifeInit ==
    /\ scn = Session(1)
    /\ running = FALSE
    /\ sem = 0
    /\ cell = [t \in Threads |-> [s \in Threads |-> Null]]
    /\ queue = <<>>
    /\ mutex = Free
    /\ nextJob = [th \in Threads |-> 0]
    /\ pool = NumThreads
    /\ quit = FALSE
    /\ created = FALSE
    /\ result = "none"
    /\ tid = [th \in Threads |-> -1]
    /\ firstTo = [th \in Threads |-> -1]
    /\ doneBy = [t \in Tasks |-> -1]
    /\ stack = [th \in Threads |->
                  IF th = 0 THEN <<Fr("Client", "create", Null, 1, 0, 0, 0)>> ELSE <<>>]
    /\ st = [t \in Tasks |-> "none"]
    /\ tpc = [t \in Tasks |-> 1]
    /\ rh = [t \in Tasks |-> Null]
    /\ trk = [t \in Tasks |-> Null]
    /\ owner = [t \in Tasks |-> 0]
    /\ lcnt = [b \in Blocks |-> [th \in Threads |-> 0]]
    /\ rcnt = [b \in Blocks |-> [th \in Threads |-> 0]]
    /\ target = [b \in Blocks |-> 0]
    /\ returned = [b \in Blocks |-> FALSE]
    /\ fault = "none"
    /\ deposits = [t \in Tasks |-> 0]
    /\ execs = [t \in Tasks |-> 0]
    /\ incs = [t \in Tasks |-> 0]
    /\ appended = <<>>
    /\ drained = <<>>

LifeNext ==
    \/ CreateJobManager
    \/ CtorInit
    \/ CtorSpawn
    \/ CtorThrow
    \/ CtorDone
    \/ ClientSession
    \/ ClientSkipPrepare
    \/ ClientDestroy
    \/ DtorQuit
    \/ DtorRelease
    \/ DtorJoin
    \/ DtorDone
    \/ PrepareToRunJobs
    \/ ListPushJob
    \/ WaitForCompletion
    \/ StopRunningJobs
    \/ \E th \in Workers : JobMainStart(th)
    \/ \E th \in Workers : JobMainAcquire(th)
    \/ \E th \in Workers : JobMainQuit(th)
    \/ \E th \in Workers : JobMainLoop(th)
    \/ \E th \in Threads : ProcessPeek(th)
    \/ \E th \in Threads : ProcessClaim(th)
    \/ \E th \in Threads : PushJobExchange(th)
    \/ \E th \in Threads : PushJobAdvance(th)
    \/ \E th \in Threads : PushMainThreadJob(th)
    \/ \E th \in Threads : RunJobsProcess(th)
    \/ \E th \in Threads : RunJobsLock(th)
    \/ \E th \in Threads : RunJobsDrain(th)
    \/ \E th \in Threads : RunJobsClear(th)
    \/ \E th \in Threads : RunJobsSum(th)
    \/ \E th \in Threads : ResumeStart(th)
    \/ \E th \in Threads : ResumeContinuation(th)
    \/ \E th \in Threads : ResumeCount(th)
    \/ \E th \in Threads : ResumeDestroy(th)
    \/ \E th \in Threads : BodyReturn(th)

LifeSpec == LifeInit /\ [][LifeNext]_vars

\* The steps thread th takes inside the JobManager; what the application
\* calls next, and when, is its own choice.
LifeStep(th) ==
    \/ th = 0 /\ (CtorInit \/ CtorSpawn \/ CtorDone \/ DtorQuit \/ DtorRelease
                  \/ DtorJoin \/ DtorDone)
    \/ th \in Workers /\ (JobMainStart(th) \/ JobMainAcquire(th) \/ JobMainQuit(th)
                          \/ JobMainLoop(th))
    \/ ProcessPeek(th)
    \/ ProcessClaim(th)
    \/ PushJobExchange(th)
    \/ PushJobAdvance(th)
    \/ PushMainThreadJob(th)
    \/ RunJobsProcess(th)
    \/ RunJobsLock(th)
    \/ RunJobsDrain(th)
    \/ RunJobsClear(th)
    \/ RunJobsSum(th)
    \/ ResumeStart(th)
    \/ ResumeContinuation(th)
    \/ ResumeCount(th)
    \/ ResumeDestroy(th)
    \/ BodyReturn(th)

\* Every thread that runs code of the JobManager is scheduled again and again.
LifeFairSpec == LifeSpec /\ \A th \in Threads : WF_vars(LifeStep(th))

(***************************************************************************)
(* The build with Threading::NumThreads = 1: thread 0 is the whole pool,   *)
(* the constructor starts no worker, the matrix is the cell [0][0].        *)
(***************************************************************************)
(***************************************************************************)
(* The sessions whose coroutines change threads: a task is resumed on one  *)
(* thread, suspends in co_await and goes on on the thread that takes its   *)
(* continuation.  No task of these programs has main-thread affinity.      *)
(***************************************************************************)
HandoffInit ==
    /\ scn \in Handoffs
    /\ running = FALSE
    /\ sem = 0
    /\ cell = [t \in Threads |-> [s \in Threads |-> Null]]
    /\ queue = <<>>
    /\ mutex = Free
    /\ nextJob = [th \in Threads |-> IF th = 0 THEN 0 ELSE (th + 1) % NumThreads]
    /\ pool = NumThreads
    /\ quit = FALSE
    /\ created = TRUE
    /\ result = "true"
    /\ tid = [th \in Threads |-> th]
    /\ firstTo = [th \in Threads |-> -1]
    /\ doneBy = [t \in Tasks |-> -1]
    /\ stack = [th \in Threads |->
                  IF th = 0 THEN <<Fr("Client", "prepare", Null, 1, 0, 0, 0)>>
                  ELSE <<Fr("JobMain", "acquire", Null, 0, 0, 0, 0)>>]
    /\ st = [t \in Tasks |-> "none"]
    /\ tpc = [t \in Tasks |-> 1]
    /\ rh = [t \in Tasks |-> Null]
    /\ trk = [t \in Tasks |-> Null]
    /\ owner = [t \in Tasks |-> 0]
    /\ lcnt = [b \in Blocks |-> [th \in Threads |-> 0]]
    /\ rcnt = [b \in Blocks |-> [th \in Threads |-> 0]]
    /\ target = [b \in Blocks |-> 0]
    /\ returned = [b \in Blocks |-> FALSE]
    /\ fault = "none"
    /\ deposits = [t \in Tasks |-> 0]
    /\ execs = [t \in Tasks |-> 0]
    /\ incs = [t \in Tasks |-> 0]
    /\ appended = <<>>
    /\ drained = <<>>

HandoffNext ==
    \/ PrepareToRunJobs
    \/ ListPushJob
    \/ WaitForCompletion
    \/ StopRunningJobs
    \/ \E th \in Workers : JobMainAcquire(th)
    \/ \E th \in Workers : JobMainQuit(th)
    \/ \E th \in Workers : JobMainLoop(th)
    \/ \E th \in Threads : ProcessPeek(th)
    \/ \E th \in Threads : ProcessClaim(th)
    \/ \E th \in Threads : PushJobExchange(th)
    \/ \E th \in Threads : PushJobAdvance(th)
    \/ \E th \in Threads : RunJobsProcess(th)
    \/ \E th \in Threads : RunJobsLock(th)
    \/ \E th \in Threads : RunJobsClear(th)
    \/ \E th \in Threads : RunJobsSum(th)
    \/ \E th \in Threads : ResumeStart(th)
    \/ \E th \in Threads : ResumeContinuation(th)
    \/ \E th \in Threads : ResumeCount(th)
    \/ \E th \in Threads : ResumeDestroy(th)
    \/ \E th \in Threads : BodyReturn(th)
    \/ \E th \in Threads : BodyAwait(th)
    \/ \E th \in Threads : BodyListPush(th)
    \/ \E th \in Threads : BodyListKeep(th)
    \/ \E th \in Threads : BodyListWait(th)
    \/ \E th \in Threads : BodyListDone(th)

HandoffSpec == HandoffInit /\ [][HandoffNext]_vars

(***************************************************************************)
(* The session that pushes a burst of leaf tasks.                          *)
(***************************************************************************)
BurstInit ==
    /\ scn \in Bursts
    /\ running = FALSE
    /\ sem = 0
    /\ cell = [t \in Threads |-> [s \in Threads |-> Null]]
    /\ queue = <<>>
    /\ mutex = Free
    /\ nextJob = [th \in Threads |-> IF th = 0 THEN 0 ELSE (th + 1) % NumThreads]
    /\ pool = NumThreads
    /\ quit = FALSE
    /\ created = TRUE
    /\ result = "true"
    /\ tid = [th \in Threads |-> th]
    /\ firstTo = [th \in Threads |-> -1]
    /\ doneBy = [t \in Tasks |-> -1]
    /\ stack = [th \in Threads |->
                  IF th = 0 THEN <<Fr("Client", "prepare", Null, 1, 0, 0, 0)>>
                  ELSE <<Fr("JobMain", "acquire", Null, 0, 0, 0, 0)>>]
    /\ st = [t \in Tasks |-> "none"]
    /\ tpc = [t \in Tasks |-> 1]
    /\ rh = [t \in Tasks |-> Null]
    /\ trk = [t \in Tasks |-> Null]
    /\ owner = [t \in Tasks |-> 0]
    /\ lcnt = [b \in Blocks |-> [th \in Threads |-> 0]]
    /\ rcnt = [b \in Blocks |-> [th \in Threads |-> 0]]
    /\ target = [b \in Blocks |-> 0]
    /\ returned = [b \in Blocks |-> FALSE]
    /\ fault = "none"
    /\ deposits = [t \in Tasks |-> 0]
    /\ execs = [t \in Tasks |-> 0]
    /\ incs = [t \in Tasks |-> 0]
    /\ appended = <<>>
    /\ drained = <<>>

BurstNext ==
    \/ PrepareToRunJobs
    \/ ListPushJob
    \/ WaitForCompletion
    \/ StopRunningJobs
    \/ \E th \in Workers : JobMainAcquire(th)
    \/ \E th \in Workers : JobMainQuit(th)
    \/ \E th \in Workers : JobMainLoop(th)
    \/ \E th \in Threads : ProcessPeek(th)
    \/ \E th \in Threads : ProcessClaim(th)
    \/ \E th \in Threads : PushJobExchange(th)
    \/ \E th \in Threads : PushJobAdvance(th)
    \/ \E th \in Threads : RunJobsProcess(th)
    \/ \E th \in Threads : RunJobsLock(th)
    \/ \E th \in Threads : RunJobsClear(th)
    \/ \E th \in Threads : RunJobsSum(th)
    \/ \E th \in Threads : ResumeStart(th)
    \/ \E th \in Threads : ResumeContinuation(th)
    \/ \E th \in Threads : ResumeCount(th)
    \/ \E th \in Threads : ResumeDestroy(th)
    \/ \E th \in Threads : BodyReturn(th)

BurstSpec == BurstInit /\ [][BurstNext]_vars

SingleInit ==
    /\ scn \in Scenarios
    /\ running = FALSE
    /\ sem = 0
    /\ cell = [t \in Threads |-> [s \in Threads |-> Null]]
    /\ queue = <<>>
    /\ mutex = Free
    /\ nextJob = [th \in Threads |-> 0]
    /\ pool = 1
    /\ quit = FALSE
    /\ created = TRUE
    /\ result = "true"
    /\ tid = [th \in Threads |-> IF th = 0 THEN 0 ELSE -1]
    /\ firstTo = [th \in Threads |-> -1]
    /\ doneBy = [t \in Tasks |-> -1]
    /\ stack = [th \in Threads |->
                  IF th = 0 THEN <<Fr("Client", "prepare", Null, 1, 0, 0, 0)>> ELSE <<>>]
    /\ st = [t \in Tasks |-> "none"]
    /\ tpc = [t \in Tasks |-> 1]
    /\ rh = [t \in Tasks |-> Null]
    /\ trk = [t \in Tasks |-> Null]
    /\ owner = [t \in Tasks |-> 0]
    /\ lcnt = [b \in Blocks |-> [th \in Threads |-> 0]]
    /\ rcnt = [b \in Blocks |-> [th \in Threads |-> 0]]
    /\ target = [b \in Blocks |-> 0]
    /\ returned = [b \in Blocks |-> FALSE]
    /\ fault = "none"
    /\ deposits = [t \in Tasks |-> 0]
    /\ execs = [t \in Tasks |-> 0]
    /\ incs = [t \in Tasks |-> 0]
    /\ appended = <<>>
    /\ drained = <<>>

SingleNext ==
    \/ PrepareToRunJobs
    \/ ListPushJob
    \/ WaitForCompletion
    \/ StopRunningJobs
    \/ ProcessPeek(0)
    \/ PushJobExchange(0)
    \/ PushJobReturn(0)
    \/ PushMainThreadJob(0)
    \/ Relock(0)
    \/ RunJobsProcess(0)
    \/ RunJobsLock(0)
    \/ RunJobsDrain(0)
    \/ RunJobsClear(0)
    \/ RunJobsSum(0)
    \/ ResumeStart(0)
    \/ ResumeContinuation(0)
    \/ ResumeCount(0)
    \/ ResumeDestroy(0)
    \/ BodyReturn(0)
    \/ BodyAwait(0)
    \/ BodyListPush(0)
    \/ BodyListWait(0)
    \/ BodyListDone(0)

SingleSpec == SingleInit /\ [][SingleNext]_vars

(***************************************************************************)
(* Derived notions the properties are stated with.                          *)
(***************************************************************************)
RECURSIVE SumUpTo(_, _)
SumUpTo(f, n) == IF n < 0 THEN 0 ELSE f[n] + SumUpTo(f, n - 1)

\* All completions recorded in a tracking block.
CounterSum(b) == SumUpTo(lcnt[b], NumThreads - 1) + SumUpTo(rcnt[b], NumThreads - 1)
\* The coroutine has reached its final suspension.
Completed(t) == st[t] \in {"done", "freed"}
\* The tasks pushed to the Job List with tracking block b.
Batch(b) == {t \in Tasks : trk[t] = b}
FramePos == UNION {{<<th, k>> : k \in 1..Len(stack[th])} : th \in Threads}
FrameAt(p) == stack[p[1]][p[2]]
\* The threads that are inside the body of coroutine t.
Resumers(t) == {p \in FramePos : FrameAt(p).fn = "Body" /\ FrameAt(p).h = t}
\* The handles a thread obtained and has not resumed yet.
InFlight(t) ==
    Cardinality({p \in FramePos : /\ FrameAt(p).fn = "ResumeCoroutine"
                                  /\ FrameAt(p).pc = "resume"
                                  /\ FrameAt(p).h = t})
InCells(t) == Cardinality({c \in Threads \X Threads : cell[c[1]][c[2]] = t})
\* The position of the drain loop in the main-thread queue.
DrainPos ==
    IF \E p \in FramePos : FrameAt(p).fn = "RunJobs" /\ FrameAt(p).pc = "drain"
    THEN FrameAt(CHOOSE p \in FramePos :
                    FrameAt(p).fn = "RunJobs" /\ FrameAt(p).pc = "drain").i
    ELSE 1
Pending == SubSeq(queue, DrainPos, Len(queue))
Count(q, t) == Cardinality({k \in 1..Len(q) : q[k] = t})
\* Every deposit of a handle is pending, held by exactly one claimant that is
\* about to resume it, or has been resumed: none is lost, none is duplicated.
Conservation ==
    \A t \in Tasks : deposits[t] = execs[t] + InFlight(t) + InCells(t) + Count(Pending, t)
InRunJobs(th) == \E k \in 1..Len(stack[th]) : stack[th][k].fn = "RunJobs"
\* A thread waits for a mutex it owns itself.
Stuck == \E th \in Threads : Len(stack[th]) > 0 /\ Top(th).pc = "hung"

(***************************************************************************)
(* C1: RunJobs (WaitForCompletion) for a batch returns only when every     *)
(* task pushed to that Job List has reached Completed.                      *)
(***************************************************************************)
C1_WaitReturnsAfterAllCompleted ==
    \A b \in Blocks : returned[b] => \A t \in Batch(b) : Completed(t)

(***************************************************************************)
(* C2: for every task with a tracking block exactly one counter is         *)
(* incremented exactly once, at its completion, so that after the wait     *)
(* returned the counters of the block sum up to the number of pushed tasks. *)
(***************************************************************************)
C2_ExactlyOneIncrement ==
    /\ \A t \in Tasks : incs[t] <= 1 /\ (incs[t] = 1 => Completed(t))
    /\ \A b \in Blocks : returned[b] => CounterSum(b) = target[b]

(***************************************************************************)
(* C3: every deposited handle is resumed exactly once per deposit, never   *)
(* dropped and never claimed twice; pushing K tasks and waiting yields     *)
(* exactly K executions of the task bodies.                                 *)
(***************************************************************************)
C3_NoLostTasks ==
    /\ Conservation
    /\ \A b \in Blocks : returned[b] =>
          \A t \in Batch(b) : execs[t] >= 1 /\ (Prog(scn, t) = Leaf => execs[t] = 1)

(***************************************************************************)
(* C4: with every thread scheduled fairly, RunJobs called by the client    *)
(* for its batch eventually returns (the sum it computes reaches the       *)
(* target), unless the run has hit undefined behaviour or a thread that    *)
(* waits for itself.                                                        *)
(***************************************************************************)
C4_RunJobsEventuallyReturns ==
    <>(returned[RootBlock] \/ fault # "none" \/ Stuck)

(***************************************************************************)
(* C5: a task frame is being resumed by at most one thread, and a handle   *)
(* obtained by an exchange is obtained by no other thread until it is      *)
(* deposited again.                                                         *)
(***************************************************************************)
C5_OneResumerPerFrame ==
    /\ fault # "resume_running"
    /\ \A t \in Tasks : Cardinality({p[1] : p \in Resumers(t)}) <= 1
    /\ \A t \in Tasks : InFlight(t) <= deposits[t] - execs[t]

C7_RunJobsNeverBlocks ==
    /\ fault # "terminate"
    /\ \A th \in Threads : InRunJobs(th) => Top(th).pc # "hung"

C9_ValueFrameAliveAtReturn ==
    \A t \in Tasks :
        (trk[t] # Null /\ ~ReturnVoid(scn, t)) =>
            /\ ~Gone(t)
            /\ returned[trk[t]] => st[t] = "done"

(***************************************************************************)
(* C10: PushJob(h) by thread s with routing target t stores h in cell      *)
(* [t][s]; a displaced, unclaimed handle d is resumed by s itself before   *)
(* PushJob returns, never by t, and is not lost.                            *)
(***************************************************************************)
PushJobEffect(s) ==
    LET t == nextJob[s]
        h == Top(s).h
        d == cell[t][s] IN
    /\ cell' = [cell EXCEPT ![t][s] = h]
    /\ d # Null =>
          /\ Len(stack'[s]) = Len(stack[s]) + 1
          /\ stack'[s][Len(stack[s])].fn = "PushJob"
          /\ stack'[s][Len(stack[s])].pc = "advance"
          /\ stack'[s][Len(stack'[s])] = ResumeFrame(d)
    /\ d = Null => Len(stack'[s]) = Len(stack[s])
    /\ nextJob' = nextJob

C10_PushJobDisplaces ==
    /\ []Conservation
    /\ [][\A s \in Threads :
            (At(s, "PushJob", "xchg") /\ stack'[s] # stack[s]) => PushJobEffect(s)]_vars

\* The posting thread has resumed a handle its own deposit displaced, and
\* PushJob has not returned yet.
C10_Witness ==
    \E p \in FramePos :
        /\ FrameAt(p).fn = "PushJob" /\ FrameAt(p).pc = "advance"
        /\ p[2] < Len(stack[p[1]])
        /\ stack[p[1]][p[2] + 1].fn = "ResumeCoroutine"
        /\ stack[p[1]][p[2] + 1].pc = "count"
        /\ Completed(stack[p[1]][p[2] + 1].h)

(***************************************************************************)
(* C11: with more than one thread, the first PushJob call of every pool    *)
(* thread s, thread 0 included, deposits into a cell whose target thread   *)
(* is different from s.  firstTo[s] records the target of the first        *)
(* exchange PushJob performs on thread s (-1 before it).                   *)
(***************************************************************************)
C11_FirstTargetNotSelf == pool > 1 => \A s \in Threads : firstTo[s] # s

(***************************************************************************)
(* C12: after PrepareToRunJobs, as long as StopRunningJobs is not called,  *)
(* every worker eventually passes m_RunningSemaphore.acquire() and calls   *)
(* ProcessJobList from the loop of JobMain, in the first session and in    *)
(* every later one, whatever permits the earlier sessions left over.       *)
(***************************************************************************)
InLoop(w) == Len(stack[w]) > 1 /\ stack[w][1].fn = "JobMain" /\ stack[w][1].pc = "loop"

C12_WorkersEnterLoop ==
    \A w \in Workers : running ~> (InLoop(w) \/ ~running \/ fault # "none")

\* The second session runs, a permit of the first is left over and every
\* worker is inside ProcessJobList.
C12_Witness ==
    /\ running /\ stack[0][1].acc = 2 /\ sem > 0
    /\ \A w \in Workers : InLoop(w)

(***************************************************************************)
(* C13: after StopRunningJobs, as long as PrepareToRunJobs is not called   *)
(* again (and the JobManager is not destroyed), every worker eventually    *)
(* has left ProcessJobList and is blocked in acquire() on a semaphore      *)
(* without permits; StopRunningJobs itself touches no thread and no task:  *)
(* a resume in progress goes on.                                           *)
(***************************************************************************)
Stopped == ~running /\ stack[0][1].pc = "end" /\ stack[0][1].acc > 0
Idle(w) == Len(stack[w]) = 1 /\ stack[w][1].pc = "acquire" /\ sem = 0

C13_WorkersFallIdle ==
    /\ \A w \in Workers :
          Stopped ~> (Idle(w) \/ running \/ quit \/ fault # "none")
    /\ [][(running /\ ~running') =>
              /\ \A w \in Workers : stack'[w] = stack[w]
              /\ UNCHANGED <<taskv, cell, queue, sem>>]_vars

\* The flag has been cleared while a worker is inside ResumeCoroutine.
C13_Witness ==
    /\ Stopped
    /\ \E w \in Workers : \E k \in 1..Len(stack[w]) : stack[w][k].fn = "ResumeCoroutine"

(***************************************************************************)
(* C14: when the destructor is invoked with the running flag clear, after  *)
(* any number of sessions (none included), every worker leaves JobMain     *)
(* and every join of the destructor returns: the destructor returns.       *)
(***************************************************************************)
InDtor == \E k \in 1..Len(stack[0]) : stack[0][k].fn = "~JobManager"
Exited(w) == Len(stack[w]) = 1 /\ stack[w][1].pc = "exited"
Destroyed == Len(stack[0]) = 1 /\ stack[0][1].pc = "destroyed"

C14_DestructorJoinsAll ==
    /\ [](InDtor => ~running)
    /\ InDtor ~> ((Destroyed /\ \A w \in Workers : Exited(w)) \/ fault # "none")

\* The destructor has returned after two sessions, all workers gone.
C14_Witness ==
    /\ Destroyed /\ stack[0][1].acc = 2
    /\ \A w \in Workers : Exited(w)

(***************************************************************************)
(* C15: PushJob (with more than one thread) or PushMainThreadJob invoked   *)
(* while the running flag is clear trips the assertion, a fatal error,     *)
(* and neither the mailbox cell nor the main-thread queue has been         *)
(* modified: the thread does not get past the assert, and the step it     *)
(* takes there is the failure of the assertion.                             *)
(***************************************************************************)
AtAssert(th) ==
    \/ pool > 1 /\ At(th, "PushJob", "xchg")
    \/ At(th, "PushMainThreadJob", "lock")

C15_PushWhileStoppedAsserts ==
    [][\A th \in Threads :
          (AtAssert(th) /\ ~running) =>
              /\ stack'[th] = stack[th]
              /\ fault' = "assert" => UNCHANGED <<cell, queue, deposits, appended>>]_vars

\* The application pushed a main-thread task with no session running: the
\* assertion of PushMainThreadJob has failed and the queue is as it was.
C15_Witness ==
    /\ fault = "assert" /\ ~running
    /\ Top(0).fn = "PushMainThreadJob" /\ queue = <<>>

(***************************************************************************)
(* C16: CreateJobManager is idempotent: the first successful call          *)
(* constructs the singleton and starts the N-1 workers; a later call       *)
(* returns true at once and leaves the singleton, the worker threads, the  *)
(* matrix, the queue, the flags and the semaphore as they are.             *)
(***************************************************************************)
C16_CreateIdempotent ==
    /\ [](created => \A w \in Workers : stack[w] # <<>>)
    /\ [][(~created /\ created') => (result' = "true" /\ sem' = 0 /\ ~running')]_vars
    /\ [][(At(0, "Client", "create") /\ created /\ stack'[0] # stack[0]) =>
              /\ result' = "true"
              /\ Len(stack'[0]) = 1
              /\ \A w \in Workers : stack'[w] = stack[w]
              /\ UNCHANGED <<created, cell, queue, mutex, running, quit, sem, tid, nextJob>>]_vars

\* The second call has returned; the workers of the first are there.
C16_Witness ==
    /\ created /\ result = "true"
    /\ Len(stack[0]) = 1 /\ stack[0][1].pc = "end" /\ stack[0][1].acc = 0
    /\ \A w \in Workers : stack[w] # <<>>

(***************************************************************************)
(* C17: whenever construction fails, at whichever worker thread the        *)
(* creation throws, CreateJobManager returns false, the singleton stays    *)
(* unset and no worker thread that was already started is left behind.     *)
(***************************************************************************)
ConstructionFailed == fault = "terminate" \/ result = "false"

C17_FailedConstructionClean ==
    ConstructionFailed =>
        /\ fault = "none" /\ result = "false" /\ ~created
        /\ \A w \in Workers : stack[w] = <<>> \/ Exited(w)

(***************************************************************************)
(* C19: once the JobManager is constructed the pool threads have pairwise  *)
(* different ids, exactly 0..N-1: GetThreadId returns 0 on the             *)
(* constructing thread and i on the worker started with index i, as soon   *)
(* as the worker has run the first statement of JobMain; an id that has    *)
(* been assigned never changes.                                            *)
(***************************************************************************)
Assigned(th) ==
    IF th = 0 THEN created ELSE stack[th] # <<>> /\ stack[th][1].pc # "start"

C19_ThreadIds ==
    /\ [](\A th \in Threads : Assigned(th) => GetThreadId(th) = th)
    /\ [](\A a, b \in Threads : (Assigned(a) /\ Assigned(b) /\ a # b) =>
                                    GetThreadId(a) # GetThreadId(b))
    /\ [][\A th \in Threads : tid[th] # -1 => tid'[th] = tid[th]]_vars

\* Every thread of the pool has its id, during a session.
C19_Witness ==
    /\ created /\ running
    /\ \A th \in Threads : Assigned(th) /\ GetThreadId(th) = th

(***************************************************************************)
(* C18: with a single thread PushJob resumes the handle on the calling     *)
(* thread, inside the call, before it returns; it stores nothing in any    *)
(* mailbox cell, and every cell is empty after any sequence of operations. *)
(***************************************************************************)
CellsEmpty == \A t \in Threads : \A s \in Threads : cell[t][s] = Null

C18_SingleThreadInline ==
    /\ []CellsEmpty
    /\ [][(At(0, "PushJob", "xchg") /\ stack'[0] # stack[0]) =>
              /\ Len(stack'[0]) = Len(stack[0]) + 1
              /\ stack'[0][Len(stack[0])].fn = "PushJob"
              /\ stack'[0][Len(stack'[0])] = ResumeFrame(Top(0).h)
              /\ UNCHANGED <<cell, deposits, nextJob>>]_vars
    /\ [][(At(0, "PushJob", "inline") /\ stack'[0] # stack[0]) =>
              /\ execs[Top(0).h] > 0
              /\ stack' = Pop(0)]_vars

\* ResumeCoroutine has returned into PushJob: the task pushed has run to its
\* end on the calling thread and PushJob has not returned yet.
C18_Witness ==
    /\ pool = 1 /\ At(0, "PushJob", "inline")
    /\ execs[Top(0).h] > 0 /\ Completed(Top(0).h)
    /\ CellsEmpty

(***************************************************************************)
(* C20: WaitForCompletion on a Job List with no task (RunJobs with target  *)
(* 0) returns without claiming a mailbox cell, without draining the        *)
(* main-thread queue and without resuming a task, and it does not block:   *)
(* nothing but the scan of ProcessJobList ever runs inside such a call,    *)
(* and the call is never waiting for the mutex its own thread holds.       *)
(***************************************************************************)
EmptyWait(p) == FrameAt(p).fn = "RunJobs" /\ FrameAt(p).tgt = 0

Completes(c) ==
    /\ At(c, "ResumeCoroutine", "count")
    /\ st[Top(c).h] = "done"
    /\ trk[Top(c).h] # Null
    /\ stack'[c] # stack[c]

\* C21: when ResumeCoroutine on thread c finds a completed task with a
\* tracking block, exactly one counter of that block goes up by one: the
\* local counter of entry c when c is the task's owning thread, the remote
\* counter of entry c otherwise; and no counter changes in any other step.
C21_IncrementsCurrentThreadEntry ==
    [][/\ \A c \in Threads :
            Completes(c) =>
                LET h == Top(c).h IN
                IF owner[h] = c
                THEN lcnt' = [lcnt EXCEPT ![trk[h]][c] = @ + 1] /\ rcnt' = rcnt
                ELSE rcnt' = [rcnt EXCEPT ![trk[h]][c] = @ + 1] /\ lcnt' = lcnt
       /\ (\A c \in Threads : ~Completes(c)) => (lcnt' = lcnt /\ rcnt' = rcnt)]_vars

\* both kinds of increment have happened in one block
C21_Witness ==
    \E b \in Blocks : \E c, d \in Threads : lcnt[b][c] > 0 /\ rcnt[b][d] > 0

\* C22 as stated: when a task owned by thread t is found completed by a
\* thread c other than t, the counter that goes up is the remote counter
\* of entry t, the owning thread's.
C22_RemoteIncrementsOwnerEntry ==
    [][\A c \in Threads :
            (Completes(c) /\ owner[Top(c).h] # c) =>
                LET h == Top(c).h IN
                rcnt'[trk[h]][owner[h]] = rcnt[trk[h]][owner[h]] + 1]_vars

\* C22 as the code has it: when a task owned by thread t is found completed
\* by a thread c other than t, the counter that goes up is the remote
\* counter of entry c, the completing thread's; entry t keeps its value.
C22_RemoteIncrementsCompleterEntry ==
    [][\A c \in Threads :
            (Completes(c) /\ owner[Top(c).h] # c) =>
                LET h == Top(c).h IN
                /\ rcnt'[trk[h]][c] = rcnt[trk[h]][c] + 1
                /\ rcnt'[trk[h]][owner[h]] = rcnt[trk[h]][owner[h]]]_vars

\* a task was completed by a thread other than its owner, whose own remote
\* counter is still zero
C22_Witness ==
    \E h \in Tasks :
        /\ trk[h] # Null
        /\ incs[h] > 0
        /\ rcnt[trk[h]][owner[h]] = 0
        /\ \E c \in Threads \ {owner[h]} : rcnt[trk[h]][c] > 0

(***************************************************************************)
(* Who touches the plain local counters.                                   *)
(***************************************************************************)
\* the value the summing step of thread c takes from entry i: what its
\* partial sum grows by or, in the last iteration, what it compares
SumTakes(c, v) ==
    LET f == Top(c) IN
    IF f.i + 1 < pool
    THEN stack'[c] = Replace(c, [f EXCEPT !.i = @ + 1, !.acc = f.acc + v])[c]
    ELSE (stack'[c] = Pop(c)[c]) <=> (f.acc + v = f.tgt)

\* C23: the plain local_count[t] of a block is written only by thread t,
\* and only for a task that t owns and that t's own resume ran to its end;
\* a summing step of a thread c takes the local counter of no entry but c's
\* own (of the other entries it takes the remote counter).
C23_LocalCountSingleThread ==
    [][/\ \A b \in Blocks : \A t \in Threads :
            lcnt'[b][t] # lcnt[b][t] =>
                /\ Completes(t)
                /\ trk[Top(t).h] = b
                /\ owner[Top(t).h] = t
                /\ doneBy[Top(t).h] = t
       /\ \A c \in Threads :
            (At(c, "RunJobs", "sum") /\ stack'[c] # stack[c] /\ Top(c).i # c) =>
                SumTakes(c, rcnt[Top(c).blk][Top(c).i])]_vars

(***************************************************************************)
(* What the waiting thread's sum counts.                                   *)
(***************************************************************************)
\* the sum the loop of RunJobs on thread w forms over block b: the local
\* counter of entry w and the remote counters of the other entries
WaiterSum(w, b) == lcnt[b][w] + SumUpTo(rcnt[b], pool - 1) - rcnt[b][w]

\* thread w is in the last iteration of the summing loop of a RunJobs over
\* block b whose tasks it all owns
OwnerCompares(w, b) ==
    /\ Len(stack[w]) > 0
    /\ At(w, "RunJobs", "sum")
    /\ Top(w).blk = b
    /\ Top(w).i = pool - 1
    /\ \A t \in Batch(b) : owner[t] = w

\* C24: when the waiting thread w owns every task of the batch, the sum its
\* RunJobs compares with the target never exceeds the number of completed
\* tasks of the batch, the counters it sums hold one increment for each
\* task whose completion was counted, and once every task was counted the
\* sum is the target.
C24_OwnerSumCountsCompletions ==
    \A w \in Threads : \A b \in Blocks :
        OwnerCompares(w, b) =>
            LET sum == Top(w).acc + CounterRead(w, b, Top(w).i) IN
            /\ sum <= Cardinality({t \in Batch(b) : Completed(t)})
            /\ WaiterSum(w, b) = Cardinality({t \in Batch(b) : incs[t] > 0})
            /\ (\A t \in Batch(b) : incs[t] > 0) => WaiterSum(w, b) = Top(w).tgt

(***************************************************************************)
(* A Job List that is waited for on another thread than it was filled on.  *)
(***************************************************************************)
\* thread w is in a RunJobs over block b that holds a task pushed by
\* another thread
ForeignWait(w, b) ==
    /\ \E k \in 1..Len(stack[w]) : stack[w][k].fn = "RunJobs" /\ stack[w][k].blk = b
    /\ \E t \in Batch(b) : owner[t] # w

\* C25: when the waiting thread w is not the thread that pushed the tasks
\* of the batch, no completion is counted in a counter that the sum of w
\* leaves out (the local counter of another entry, the remote counter of
\* entry w), so that the sum of w is the target once every task of the
\* batch was counted once.
C25_ForeignWaitSeesCompletions ==
    \A w \in Threads : \A b \in Blocks :
        ForeignWait(w, b) =>
            /\ rcnt[b][w] = 0
            /\ \A t \in Threads \ {w} : lcnt[b][t] = 0
            /\ (\A t \in Batch(b) : incs[t] = 1) => WaiterSum(w, b) = target[b]

(***************************************************************************)
(* The dispatch of continuations.                                          *)
(***************************************************************************)
\* thread c takes the step of ResumeCoroutine that dispatches the
\* continuation of the task it has just resumed
DispatchesContinuation(c) ==
    /\ At(c, "ResumeCoroutine", "cont")
    /\ rh[Top(c).h] # Null
    /\ stack'[c] # stack[c]

\* C26: ResumeCoroutine dispatches the continuation of a task only when the
\* task has completed, never when it has merely suspended on a sub-task;
\* so no awaiter goes on, reads the result and releases the frame of a
\* task that has not completed.
C26_ContinuationAfterCompletion ==
    [][/\ \A c \in Threads : DispatchesContinuation(c) => st[Top(c).h] = "done"
       /\ \A t \in Tasks : st'[t] # "killed"]_vars

\* the co_await operations the body of task t has gone through
AwaitsMade(t) ==
    Cardinality({k \in 1..Len(Prog(scn, t)) : k < tpc[t] /\ Prog(scn, t)[k].op = "await"})

\* C27: a task is handed to PushJob or PushMainThreadJob once to be started
\* and, as a continuation, at most once for each co_await it has made: a
\* task that holds a continuation handle and is resumed several times does
\* not dispatch that continuation again after each resume.
C27_ContinuationAtMostOnce ==
    pool > 1 => \A t \in Tasks : deposits[t] <= 1 + AwaitsMade(t)

(***************************************************************************)
(* The release of task frames.                                             *)
(***************************************************************************)
\* thread c is at coro.destroy() of a fire-and-forget task
AtDestroy(c) ==
    /\ Len(stack[c]) > 0
    /\ At(c, "ResumeCoroutine", "destroy")
    /\ ReturnVoid(scn, Top(c).h)

\* C28: the thread that executes coro.destroy() on a fire-and-forget task
\* is the one whose resume ran the task to its end, the task has completed,
\* and its frame has not been released before: a frame is released once,
\* and never while the task is suspended or running.
C28_FrameReleasedOnceByCompleter ==
    \A c \in Threads :
        AtDestroy(c) => st[Top(c).h] = "done" /\ doneBy[Top(c).h] = c

\* thread c is in ResumeCoroutine after coro.resume() returned, about to
\* read the promise of the task (continuation handle, done state, tracking
\* block pointer, owning thread or auto-destroy flag)
ReadsFrame(c) ==
    /\ Len(stack[c]) > 0
    /\ fault = "none"
    /\ Top(c).fn = "ResumeCoroutine"
    /\ Top(c).pc \in {"cont", "count", "destroy"}

\* C29: a thread that is about to access the frame of a task in
\* ResumeCoroutine never finds the frame released, and it makes no access
\* to the frame of a value-returning task of a Job List once the wait on
\* that list has returned and the list is free to release the frame.
C29_NoFrameAccessAfterRelease ==
    \A c \in Threads :
        ReadsFrame(c) =>
            LET h == Top(c).h IN
            /\ ~Gone(h)
            /\ (trk[h] # Null /\ ~ReturnVoid(scn, h)) => ~returned[trk[h]]

(***************************************************************************)
(* The tracking block after the wait.                                      *)
(***************************************************************************)
\* C30: once RunJobs has returned for the batch of block b, no counter of
\* b is written and no summing loop reads b any more: every increment for
\* a task of the batch precedes the return.
C30_BlockQuietAfterReturn ==
    [][\A b \in Blocks :
            returned[b] =>
                /\ lcnt'[b] = lcnt[b]
                /\ rcnt'[b] = rcnt[b]
                /\ \A p \in FramePos : ~(FrameAt(p).fn = "RunJobs" /\ FrameAt(p).blk = b)]_vars

(***************************************************************************)
(* The life of a task after its completion.                                *)
(***************************************************************************)
\* the frames of calls that are about to deposit or to resume handle t
Dispatching(t) ==
    {p \in FramePos : /\ FrameAt(p).fn \in {"PushJob", "PushMainThreadJob"}
                      /\ FrameAt(p).pc \in {"xchg", "lock"}
                      /\ FrameAt(p).h = t}

\* C31: a task that has completed, or whose frame was released, is never
\* resumed again: its handle is in no mailbox cell and not pending in the
\* main-thread queue, no thread holds it to resume it or dispatches it, and
\* no resume has hit a completed or released frame.
C31_CompletedNeverResumed ==
    /\ fault \notin {"resume_done", "resume_destroyed"}
    /\ \A t \in Tasks :
        (Completed(t) \/ Gone(t)) =>
            /\ InCells(t) = 0
            /\ Count(Pending, t) = 0
            /\ InFlight(t) = 0
            /\ Dispatching(t) = {}

(***************************************************************************)
(* The routing of continuations by affinity.                               *)
(***************************************************************************)
\* C32: the continuation ResumeCoroutine finds after a resume goes to
\* PushMainThreadJob when it is main-thread-affine and to PushJob when it
\* is not; no mailbox cell holds a main-thread-affine handle and no PushJob
\* call carries one, so neither the scan of a row nor the displacement path
\* of PushJob can resume one.
C32_ContinuationRoutedByAffinity ==
    [][/\ \A c \in Threads :
            DispatchesContinuation(c) =>
                LET k == rh[Top(c).h] IN
                /\ Len(stack'[c]) = Len(stack[c]) + 1
                /\ stack'[c][Len(stack'[c])].h = k
                /\ stack'[c][Len(stack'[c])].fn =
                        IF IsMainThread(scn, k) THEN "PushMainThreadJob" ELSE "PushJob"
       /\ \A t, s \in Threads : cell[t][s] # Null => ~IsMainThread(scn, cell[t][s])
       /\ \A p \in FramePos :
            FrameAt(p).fn = "PushJob" => ~IsMainThread(scn, FrameAt(p).h)]_vars

\* a main-thread-affine task that awaited a child was appended to the
\* main-thread queue a second time, as the child's continuation
C32_Witness == scn = 9 /\ Count(appended, 1) = 2 /\ fault = "none"

(***************************************************************************)
(* One call of ProcessJobList.                                             *)
(***************************************************************************)
\* thread t takes a step of its scan
Scans(t) ==
    /\ Len(stack[t]) > 0
    /\ fault = "none"
    /\ Top(t).fn = "ProcessJobList"
    /\ stack'[t] # stack[t]

\* the call returns false: it ends without a handle to resume
ReturnsFalse(t) == Scans(t) /\ stack'[t] = Pop(t)[t]

\* the call claims handle h, resumes it and returns true with the return of
\* ResumeCoroutine
ReturnsTrue(t, h) == Scans(t) /\ stack'[t] = Replace(t, ResumeFrame(h))[t]

\* C33: a call ProcessJobList(t) scans the cells of row t by ascending
\* source index; it empties at most one cell, of row t, and with that the
\* call ends in the resume of the claimed handle and returns true; it
\* returns false only behind the last cell, having found each cell empty;
\* no other cell is modified by the scan.
C33_ProcessJobListOneClaim ==
    [][\A t \in Threads :
            Scans(t) =>
                LET f == Top(t) IN
                /\ \A r, s \in Threads : (r # t \/ s # f.i) => cell'[r][s] = cell[r][s]
                /\ cell'[t][f.i] \in {cell[t][f.i], Null}
                /\ (cell'[t][f.i] # cell[t][f.i]) <=> ReturnsTrue(t, cell[t][f.i])
                /\ ReturnsFalse(t) <=> (f.i = pool - 1 /\ cell[t][f.i] = Null)
                /\ \/ ReturnsFalse(t)
                   \/ ReturnsTrue(t, cell[t][f.i])
                   \/ /\ Len(stack'[t]) = Len(stack[t])
                      /\ stack'[t][Len(stack[t])].fn = "ProcessJobList"
                      /\ stack'[t][Len(stack[t])].i \in {f.i, f.i + 1}]_vars

\* a worker has claimed a cell of its row behind the first one and the
\* handle was resumed
C33_Witness ==
    \E t \in Workers : \E s \in Threads \ {0} :
        /\ firstTo[s] = t
        /\ cell[t][s] = Null
        /\ \E h \in Tasks : execs[h] > 0 /\ doneBy[h] = t

(***************************************************************************)
(* The order of two handles that pass through one mailbox cell.            *)
(***************************************************************************)
\* thread s holds handle h1, displaced from a cell by its deposit of h2,
\* and has not begun to resume it
HoldsDisplaced(s, h1, h2) ==
    \E k \in 1..(Len(stack[s]) - 1) :
        /\ stack[s][k].fn = "PushJob"
        /\ stack[s][k].pc = "advance"
        /\ stack[s][k].h = h2
        /\ stack[s][k + 1] = ResumeFrame(h1)

\* C34: of two handles deposited one after the other in one cell by one
\* thread, the earlier begins its resume before the later does: while the
\* depositing thread holds a displaced handle that it has not begun to
\* resume, no resume of the handle that displaced it has begun.
C34_CellOrderedByArrival ==
    \A s \in Threads : \A h1, h2 \in Tasks :
        HoldsDisplaced(s, h1, h2) => execs[h2] < deposits[h2]

(***************************************************************************)
(* A wait on a Job List from inside a task.                                *)
(***************************************************************************)
\* frame k of thread th is the RunJobs of a WaitForCompletion called by a
\* task body
NestedWait(th, k) ==
    /\ k > 1
    /\ k <= Len(stack[th])
    /\ stack[th][k].fn = "RunJobs"
    /\ stack[th][k - 1].fn = "Body"
    /\ stack[th][k - 1].pc = "waited"

\* C35: the RunJobs that a task calls for its own Job List, on the thread
\* that resumes the task, never deadlocks: it does not come to wait for a
\* mutex that the same thread holds further down its stack.
C35_NestedWaitNoDeadlock ==
    \A th \in Threads : \A k \in 1..Len(stack[th]) :
        NestedWait(th, k) =>
            /\ stack[th][k].pc # "hung"
            /\ ~(fault = "terminate" /\ k = Len(stack[th])
                    /\ stack[th][k].pc = "main" /\ mutex = th)

(***************************************************************************)
(* The running flag and the dispatches of a session.                       *)
(***************************************************************************)
\* the client has called StopRunningJobs after its WaitForCompletion
\* returned
StoppedAfterWait ==
    /\ ~running
    /\ returned[RootBlock]
    /\ Len(stack[0]) > 0
    /\ stack[0][1].fn = "Client"
    /\ stack[0][1].pc = "end"

\* C36: when the client stops the session only after its wait returned, no
\* assert(m_Running) fails: after the stop no thread is in PushJob or
\* PushMainThreadJob before its deposit, and none is about to dispatch a
\* continuation.
C36_NoDispatchAfterStop ==
    StoppedAfterWait =>
        /\ fault # "assert"
        /\ \A t \in Tasks : Dispatching(t) = {}
        /\ \A p \in FramePos :
            ~(/\ FrameAt(p).fn = "ResumeCoroutine"
              /\ FrameAt(p).pc \in {"resume", "cont"}
              /\ rh[FrameAt(p).h] # Null)

(***************************************************************************)
(* The order of the steps of one pass of the RunJobs loop on thread 0.     *)
(***************************************************************************)
\* frame k of thread 0 is a RunJobs frame whose position in the loop
\* changes in this step from a to b
PassStep(k, a, b) ==
    /\ k <= Len(stack[0])
    /\ k <= Len(stack'[0])
    /\ stack[0][k].fn = "RunJobs"
    /\ stack'[0][k].fn = "RunJobs"
    /\ stack[0][k].pc = a
    /\ stack'[0][k].pc = b

\* C37 as stated: in each pass of RunJobs on thread 0 the main-thread queue
\* is drained before the row is checked: while thread 0 scans its row for
\* the client's wait, no main-thread task the client pushed before the wait
\* is still pending unresumed in the queue.
C37_DrainBeforeRowCheck ==
    \A k \in 1..(Len(stack[0]) - 1) :
        (/\ stack[0][k].fn = "RunJobs"
         /\ stack[0][k].blk = RootBlock
         /\ stack[0][k + 1].fn = "ProcessJobList") =>
            \A t \in Batch(RootBlock) : execs[t] = 0 => Count(Pending, t) = 0

\* C37 as the code has it: each pass of RunJobs on thread 0 begins with the
\* check of the thread's own row (the call of ProcessJobList); the drain of
\* the main-thread queue follows it, then the sum, then the next pass.
C37_RowCheckBeforeDrain ==
    [][\A k \in 1..Len(stack[0]) :
        /\ PassStep(k, "process", "main") =>
                Len(stack'[0]) = k + 1 /\ stack'[0][k + 1] = ProcessFrame
        /\ \A a \in {"process", "sum", "hung"} : ~PassStep(k, a, "drain")
        /\ \A a \in {"drain", "sum", "hung"} : ~PassStep(k, a, "main")
        /\ \A a \in {"process", "main", "hung"} : ~PassStep(k, a, "sum")
        /\ \A a \in {"main", "drain", "hung"} : ~PassStep(k, a, "process")]_vars

\* thread 0 has resumed the task it found in its row while the main-thread
\* task pushed before the wait is still pending and nothing was drained
C37_Witness ==
    /\ scn = 2
    /\ execs[1] > 0
    /\ Count(Pending, 3) = 1
    /\ drained = <<>>
    /\ InRunJobs(0)

(***************************************************************************)
(* The routing counter g_NextJobID.                                         *)
(***************************************************************************)
\* the thread ids the next pool calls of PushJob by a thread would target,
\* starting from counter value n
RECURSIVE TargetsFrom(_, _)
TargetsFrom(n, k) == IF k = 0 THEN {} ELSE {n} \cup TargetsFrom(NextTarget(n), k - 1)

\* C38: the routing counter of thread s lies in 0..N-1 and changes only in a
\* step of s; every PushJob call that deposits writes the cell of row
\* nextJob[s] and advances the counter by exactly one modulo N when it
\* returns, so N consecutive non-nested calls target every thread id once:
\* the i-th push of the client's list of leaf tasks goes to row (i-1) mod N.
C38_RoutingCounterRoundRobin ==
    [][\A s \in Threads :
        /\ nextJob[s] \in 0..(pool - 1)
        /\ nextJob'[s] \in 0..(pool' - 1)
        /\ TargetsFrom(nextJob[s], pool) = 0..(pool - 1)
        /\ nextJob'[s] # nextJob[s] =>
              /\ stack'[s] # stack[s]
              /\ \/ At(s, "JobMain", "start")
                 \/ At(s, "PushJob", "advance") /\ nextJob'[s] = (nextJob[s] + 1) % pool
        /\ (At(s, "PushJob", "advance") /\ stack'[s] # stack[s]) =>
              nextJob'[s] = (nextJob[s] + 1) % pool
        /\ \A t \in Threads :
              (cell'[t][s] # cell[t][s] /\ cell'[t][s] # Null) =>
                  /\ t = nextJob[s]
                  /\ At(s, "PushJob", "xchg")
                  /\ cell'[t][s] = Top(s).h
        /\ (scn = 1 /\ s = 0 /\ At(0, "PushJob", "xchg") /\ stack'[0] # stack[0]) =>
              /\ nextJob[0] = (Top(0).h - 1) % pool
              /\ pool > 1 => cell'[(Top(0).h - 1) % pool][0] = Top(0).h]_vars

\* the client has made MaxJobs consecutive calls on thread 0, more than one
\* round of the counter
C38_Witness ==
    /\ scn = 1
    /\ fault = "none"
    /\ \A t \in 1..MaxJobs : deposits[t] = 1
    /\ nextJob[0] = MaxJobs % NumThreads
    /\ doneBy[1] = 0

(***************************************************************************)
(* Sessions whose end leaves work behind: the application may call         *)
(* StopRunningJobs without waiting for its list, and wait for it in a      *)
(* later session.                                                           *)
(***************************************************************************)
\* an application that ends the session without a call of WaitForCompletion
ClientSkipWait ==
    /\ At(0, "Client", "push")
    /\ Top(0).i > Len(Roots(scn))
    /\ stack' = Replace(0, [Top(0) EXCEPT !.pc = "stop"])
    /\ UNCHANGED <<scn, lifev, schedv, cell, queue, mutex, nextJob, taskv, cntv, fault, histv>>

StopNext ==
    \/ LifeNext
    \/ ClientSkipWait

StopSpec == LifeInit /\ [][StopNext]_vars


\* the step is the store of StopRunningJobs
StopStep == At(0, "Client", "stop") /\ stack'[0] # stack[0]

\* C39: StopRunningJobs changes only the running flag (cells, main-thread
\* queue, tracking-block counters and routing counters are unchanged), and a
\* handle pending at the stop waits for the next running session: no handle
\* leaves a cell or the main-thread queue to be resumed while the running
\* flag is clear, and no handle is resumed twice.
C39_StopLeavesHandlesForNextSession ==
    [][/\ StopStep =>
            /\ ~running'
            /\ cell' = cell
            /\ queue' = queue
            /\ lcnt' = lcnt
            /\ rcnt' = rcnt
            /\ nextJob' = nextJob
            /\ sem' = sem
       /\ \A t, s \in Threads :
            (cell[t][s] # Null /\ cell'[t][s] # cell[t][s]) => running
       /\ drained' # drained => running
       /\ \A h \in Tasks : execs'[h] <= 1]_vars


(***************************************************************************)
(* Who writes a mailbox cell.                                               *)
(***************************************************************************)
\* thread t has seen a handle in cell i of its row and is about to exchange
HasPeeked(t, i) == At(t, "ProcessJobList", "xchg") /\ Top(t).i = i

\* C40: cell [t][s] is set to a handle only by a step of thread s in PushJob
\* and set to null only by a step of thread t in ProcessJobList; so once t
\* has peeked a handle in a cell of its row the cell holds a handle until t
\* exchanges it, t resumes the handle the exchange returns, and no
\* ResumeCoroutine call is given a null handle.
C40_CellWritersAndClaim ==
    [][/\ \A t, s \in Threads :
            /\ (cell'[t][s] # cell[t][s] /\ cell'[t][s] # Null) =>
                  /\ At(s, "PushJob", "xchg")
                  /\ stack'[s] # stack[s]
                  /\ cell'[t][s] = Top(s).h
            /\ (cell[t][s] # Null /\ cell'[t][s] = Null) =>
                  /\ HasPeeked(t, s)
                  /\ stack'[t] = Replace(t, ResumeFrame(cell[t][s]))[t]
            /\ HasPeeked(t, s) => cell[t][s] \in Tasks
            /\ (HasPeeked(t, s) /\ stack'[t] # stack[t]) => cell'[t][s] = Null
       /\ \A p \in FramePos :
            FrameAt(p).fn = "ResumeCoroutine" => FrameAt(p).h \in Tasks]_vars

\* worker 1 has exchanged the later of the two handles thread 0 deposited in
\* cell [1][0] and is about to resume it; the earlier one, displaced by
\* thread 0, has not begun
C40_Witness ==
    /\ scn = 31
    /\ fault = "none"
    /\ Len(stack[1]) > 0
    /\ Top(1) = ResumeFrame(NumThreads + 2)
    /\ cell[1][0] = Null
    /\ execs[2] = 0
    /\ deposits[2] = 1

====
